---------------------------- MODULE Spec2Model ----------------------------
(***************************************************************************)
(* Model of the forecast monitor's diagnostic engine                       *)
(* (src/modules/diagnostics.py) together with the loader windows that feed *)
(* it (src/modules/loader.py).                                             *)
(*                                                                         *)
(* Floating point numbers are modelled as decimal fixed point numbers with *)
(* SCALE units per 1.0, extended with the IEEE values NaN, +Infinity and   *)
(* -Infinity.  Every arithmetic operation rounds to the nearest unit, as   *)
(* each float operation of the code rounds to the nearest double.          *)
(***************************************************************************)
EXTENDS Integers, Sequences, FiniteSets, TLC

(***************************************************************************)
(* Bounds of the model.                                                    *)
(***************************************************************************)
MaxLen == 3
MaxVal == 1

(***************************************************************************)
(* Fixed point floats.                                                     *)
(***************************************************************************)
SCALE == 100 * 100
SQRT_SCALE == 10 * 10
DIGITS == 2 + 2

NaN == <<"nan", 0>>
PosInf == <<"inf", 1>>
NegInf == <<"inf", 0 - 1>>
Fin(v) == <<"fin", v>>
FromInt(i) == Fin(i * SCALE)
Zero == Fin(0)
One == Fin(SCALE)
Half == Fin(SCALE \div 2)

IsNaN(a) == a[1] = "nan"
IsInf(a) == a[1] = "inf"
IsFinite(a) == a[1] = "fin"

Sgn(i) == IF i > 0 THEN 1 ELSE IF i < 0 THEN 0 - 1 ELSE 0
IAbs(i) == IF i < 0 THEN 0 - i ELSE i
IMax(i, j) == IF i < j THEN j ELSE i
FSign(a) == IF IsNaN(a) THEN 0 ELSE Sgn(a[2])

\* p / q rounded to the nearest integer, halves up (p >= 0, q > 0)
RoundDivPos(p, q) == (p \div q) + (IF p % q >= q - (p % q) THEN 1 ELSE 0)

\* a / b rounded to the nearest integer, halves away from zero (b # 0)
RoundDiv(a, b) == Sgn(a) * Sgn(b) * RoundDivPos(IAbs(a), IAbs(b))

Pow10(k) == IF k = 0 THEN 1 ELSE IF k = 1 THEN 10 ELSE IF k = 2 THEN 100
            ELSE IF k = 3 THEN 1000 ELSE 10000

\* p * 10^k / q for p >= 0, q > 0, by long division (no intermediate p * 10^k)
RECURSIVE LongDiv(_, _, _)
LongDiv(p, q, k) ==
    IF k = 0 THEN RoundDivPos(p, q)
    ELSE (p \div q) * Pow10(k) + LongDiv((p % q) * 10, q, k - 1)

\* the float nearest to the rational p / q (q # 0)
FromRatio(p, q) == Fin(Sgn(p) * Sgn(q) * LongDiv(IAbs(p), IAbs(q), DIGITS))

\* IEEE comparisons: every comparison with NaN is false, except !=
FLt(a, b) ==
    /\ ~IsNaN(a)
    /\ ~IsNaN(b)
    /\ IF IsInf(a) THEN a[2] < 0 /\ b # a
       ELSE IF IsInf(b) THEN b[2] > 0
       ELSE a[2] < b[2]
FGt(a, b) == FLt(b, a)
FEq(a, b) == ~IsNaN(a) /\ ~IsNaN(b) /\ a = b
FNe(a, b) == ~FEq(a, b)

FNeg(a) == IF IsNaN(a) THEN NaN ELSE <<a[1], 0 - a[2]>>
FAbs(a) == IF IsNaN(a) THEN NaN ELSE <<a[1], IAbs(a[2])>>

FAdd(a, b) ==
    IF IsNaN(a) \/ IsNaN(b) THEN NaN
    ELSE IF IsInf(a) /\ IsInf(b) THEN (IF a = b THEN a ELSE NaN)
    ELSE IF IsInf(a) THEN a
    ELSE IF IsInf(b) THEN b
    ELSE Fin(a[2] + b[2])
FSub(a, b) == FAdd(a, FNeg(b))

\* p * q / SCALE on scaled magnitudes, split so that no product overflows
MulScaled(p, q) ==
    (p \div SCALE) * (q \div SCALE) * SCALE + (p \div SCALE) * (q % SCALE)
    + (p % SCALE) * (q \div SCALE) + RoundDivPos((p % SCALE) * (q % SCALE), SCALE)

FMul(a, b) ==
    IF IsNaN(a) \/ IsNaN(b) THEN NaN
    ELSE IF IsInf(a) \/ IsInf(b)
         THEN (IF a[2] = 0 \/ b[2] = 0 THEN NaN ELSE <<"inf", Sgn(a[2]) * Sgn(b[2])>>)
    ELSE Fin(Sgn(a[2]) * Sgn(b[2]) * MulScaled(IAbs(a[2]), IAbs(b[2])))

\* float64 division as numpy performs it: x/0 is +-inf, 0/0 is nan, no exception
FDiv(a, b) ==
    IF IsNaN(a) \/ IsNaN(b) THEN NaN
    ELSE IF IsInf(a) THEN (IF IsInf(b) THEN NaN
                           ELSE <<"inf", a[2] * (IF b[2] < 0 THEN 0 - 1 ELSE 1)>>)
    ELSE IF IsInf(b) THEN Zero
    ELSE IF b[2] = 0 THEN (IF a[2] = 0 THEN NaN ELSE <<"inf", Sgn(a[2])>>)
    ELSE FromRatio(a[2], b[2])

\* floor of the square root of n >= 0, by Newton's iteration from x
ISqrtIter[n \in Nat, x \in Nat] ==
    IF (x + (n \div x)) \div 2 >= x THEN x
    ELSE ISqrtIter[n, (x + (n \div x)) \div 2]
ISqrt(n) == IF n < 2 THEN n ELSE ISqrtIter[n, n]

\* the largest integer of the arithmetic, 2^31 - 1
MaxInt == 32768 * 65535 + 32767

\* sqrt on scaled magnitudes: sqrt(v / SCALE) * SCALE = sqrt(v * SCALE)
SqrtScaled(v) ==
    IF v <= MaxInt \div SCALE THEN ISqrt(v * SCALE)
    ELSE IF v <= MaxInt \div SQRT_SCALE THEN ISqrt(v * SQRT_SCALE) * 10
    ELSE ISqrt(v) * SQRT_SCALE

FSqrt(a) ==
    IF IsNaN(a) THEN NaN
    ELSE IF IsInf(a) THEN (IF a[2] > 0 THEN PosInf ELSE NaN)
    ELSE IF a[2] < 0 THEN NaN
    ELSE Fin(SqrtScaled(a[2]))

\* Python's builtin min(a, b): b if b < a else a
PyMin(a, b) == IF FLt(b, a) THEN b ELSE a

(***************************************************************************)
(* Series: finite sequences of integer observations (pd.Series).           *)
(***************************************************************************)
\* s[1] + ... + s[n]
RECURSIVE SumTo(_, _)
SumTo(s, n) == IF n = 0 THEN 0 ELSE s[n] + SumTo(s, n - 1)
SumSeq(s) == SumTo(s, Len(s))

SumSquares(s) == SumSeq([j \in 1..Len(s) |-> s[j] * s[j]])

\* pd.Series.mean(): nan for an empty series
Mean(s) == IF Len(s) = 0 THEN NaN ELSE FromRatio(SumSeq(s), Len(s))

\* pd.Series.std(): the sample deviation (ddof = 1), nan below two points
Std(s) ==
    IF Len(s) < 2 THEN NaN
    ELSE FSqrt(FromRatio(Len(s) * SumSquares(s) - SumSeq(s) * SumSeq(s),
                         Len(s) * (Len(s) - 1)))

\* pd.Series.tail(months) and pd.Series.head(months), months >= 1
SeriesTail(s, months) ==
    IF Len(s) <= months THEN s ELSE SubSeq(s, Len(s) - months + 1, Len(s))
SeriesHead(s, months) ==
    IF Len(s) <= months THEN s ELSE SubSeq(s, 1, months)

(***************************************************************************)
(* An operation either returns a value or raises an exception.             *)
(***************************************************************************)
Returns(v) == [raised |-> "none", value |-> v]
Raises(e) == [raised |-> e, value |-> [detected |-> FALSE]]

\* the first exception of two evaluations in order, else the value
Both(first, second, value) ==
    IF first.raised # "none" THEN Raises(first.raised)
    ELSE IF second.raised # "none" THEN Raises(second.raised)
    ELSE Returns(value)

(***************************************************************************)
(* scipy.stats.linregress(np.arange(n), y): slope and rvalue.              *)
(* Empty input raises ValueError; one point is accepted (the "all x        *)
(* identical" check applies to len(x) > 1 only) and yields slope 0/0.      *)
(***************************************************************************)
\* np.arange(n)
Arange(n) == [j \in 1..n |-> j - 1]

\* n^2 times the (biased) covariance of two series of n points
CoMoment(x, y, n) ==
    n * SumSeq([j \in 1..n |-> x[j] * y[j]]) - SumSeq(x) * SumSeq(y)

\* ssxm, ssxym, ssym of np.cov(x, y, bias=1)
Covariances(x, y, n) ==
    [ssxm  |-> FromRatio(CoMoment(x, x, n), n * n),
     ssxym |-> FromRatio(CoMoment(x, y, n), n * n),
     ssym  |-> FromRatio(CoMoment(y, y, n), n * n)]

\* make sure -1 <= r <= 1
ClipR(r) == IF FGt(r, One) THEN One ELSE IF FLt(r, FNeg(One)) THEN FNeg(One) ELSE r

RValue(c) ==
    IF FEq(c.ssxm, Zero) \/ FEq(c.ssym, Zero) THEN Zero
    ELSE ClipR(FDiv(c.ssxym, FSqrt(FMul(c.ssxm, c.ssym))))

Regression(c) == [slope |-> FDiv(c.ssxym, c.ssxm), rvalue |-> RValue(c)]

linregress(y) ==
    IF Len(y) = 0 THEN Raises("ValueError")
    ELSE Returns(Regression(Covariances(Arange(Len(y)), y, Len(y))))

(***************************************************************************)
(* detect_trend_mismatch                                                   *)
(***************************************************************************)
\* a faulty variant: the product of the slopes is tested, so a flat segment
\* counts as a mismatch
TrendMismatchBySignProduct(hist_slope, forecast_slope) ==
    ~FGt(FMul(hist_slope, forecast_slope), Zero)

TrendMismatch(hist_slope, forecast_slope) ==
    \/ FGt(hist_slope, Zero) /\ FLt(forecast_slope, Zero)
    \/ FLt(hist_slope, Zero) /\ FGt(forecast_slope, Zero)

TrendConfidence(trend_mismatch, hist_r_value, forecast_r_value) ==
    IF trend_mismatch THEN PyMin(FAbs(hist_r_value), FAbs(forecast_r_value))
    ELSE Zero

TrendLabel(slope) == IF FGt(slope, Zero) THEN "increasing" ELSE "decreasing"

TrendResult(trend_mismatch, hist, fore) ==
    [detected |-> trend_mismatch,
     confidence |-> TrendConfidence(trend_mismatch, hist.rvalue, fore.rvalue),
     historical_trend |-> TrendLabel(hist.slope),
     forecast_trend |-> TrendLabel(fore.slope),
     hist_slope |-> hist.slope,
     forecast_slope |-> fore.slope,
     hist_r_squared |-> FMul(hist.rvalue, hist.rvalue),
     forecast_r_squared |-> FMul(fore.rvalue, fore.rvalue)]

TrendOutcome(hist, fore) ==
    Both(hist, fore,
         TrendResult(TrendMismatch(hist.value.slope, fore.value.slope),
                     hist.value, fore.value))

detect_trend_mismatch(historical_data, forecast_data) ==
    TrendOutcome(linregress(historical_data), linregress(forecast_data))

(***************************************************************************)
(* np.abs(scipy.fft.fft(values)): the magnitude spectrum of the discrete   *)
(* Fourier transform, X[k] = SUM_j values[j] * exp(-2 pi i j k / n).       *)
(* Sines and cosines are evaluated in fixed point from their Taylor series *)
(* on the first octant, the other octants by symmetry.                     *)
(***************************************************************************)
PI_SCALED == 31416

\* the angle pi * u / (2 n), for 0 <= 2 u <= n
OctantAngle(u, n) == RoundDivPos(PI_SCALED * u, 2 * n)

\* cos(th) as a polynomial in t = th^2
CosPoly(t) ==
    SCALE - RoundDivPos(MulScaled(t,
    SCALE - RoundDivPos(MulScaled(t,
    SCALE - RoundDivPos(MulScaled(t,
    SCALE - RoundDivPos(t, 56)), 30)), 12)), 2)

\* sin(th) / th as a polynomial in t = th^2
SincPoly(t) ==
    SCALE - RoundDivPos(MulScaled(t,
    SCALE - RoundDivPos(MulScaled(t,
    SCALE - RoundDivPos(t, 42)), 20)), 6)

\* <<cos, sin>> of an angle of the first octant
CosSin(th) ==
    <<CosPoly(RoundDivPos(th * th, SCALE)),
      MulScaled(th, SincPoly(RoundDivPos(th * th, SCALE)))>>

\* <<cos, sin>> of pi * u / (2 n), 0 <= u < n
FirstQuadrant[u \in Nat, n \in Nat] ==
    IF 2 * u <= n THEN CosSin(OctantAngle(u, n))
    ELSE <<CosSin(OctantAngle(n - u, n))[2], CosSin(OctantAngle(n - u, n))[1]>>

\* <<cos, sin>> of the angle q * pi / 2 + a, given cs = <<cos a, sin a>>
Quadrant(q, cs) ==
    IF q = 0 THEN cs
    ELSE IF q = 1 THEN <<0 - cs[2], cs[1]>>
    ELSE IF q = 2 THEN <<0 - cs[1], 0 - cs[2]>>
    ELSE <<cs[2], 0 - cs[1]>>

\* <<cos, sin>> of the angle 2 pi m / n, 0 <= m < n, in SCALE units
Twiddle(m, n) == Quadrant((4 * m) \div n, FirstQuadrant[(4 * m) % n, n])

\* the twiddles of the angles 0, 2 pi / n, ..., 2 pi (m - 1) / n
RECURSIVE TwiddleTable(_, _)
TwiddleTable(m, n) ==
    IF m = 0 THEN <<>> ELSE Append(TwiddleTable(m - 1, n), Twiddle(m - 1, n))

\* sqrt(a^2 + b^2) on scaled integers, rescaled so that the squares fit
RECURSIVE Hypot(_, _)
Hypot(a, b) ==
    IF IMax(IAbs(a), IAbs(b)) <= 32767 THEN ISqrt(a * a + b * b)
    ELSE 10 * Hypot(RoundDiv(a, 10), RoundDiv(b, 10))

\* |X[k]|, k >= 1, of the series d with the twiddle table tw
BinMagnitude(d, tw, k) ==
    Hypot(SumSeq([j \in 1..Len(d) |-> d[j] * tw[(((j - 1) * k) % Len(d)) + 1][1]]),
          0 - SumSeq([j \in 1..Len(d) |-> d[j] * tw[(((j - 1) * k) % Len(d)) + 1][2]]))

Spectrum(values, d, tw) ==
    [b \in 1..Len(values) |->
        IF b = 1 THEN Fin(IAbs(SumSeq(values)) * SCALE)
        ELSE Fin(BinMagnitude(d, tw, b - 1))]

\* Bin 0 is |SUM values|.  For k >= 1 the transform does not change when a
\* constant is subtracted from every value; the first value is subtracted so
\* that the bins of a constant segment are exactly 0, as they are over the
\* reals.
AbsFFT(values) ==
    Spectrum(values,
             [j \in 1..Len(values) |-> values[j] - values[1]],
             TwiddleTable(Len(values), Len(values)))

\* s[1] + ... + s[n] in floats
RECURSIVE FSumTo(_, _)
FSumTo(s, n) == IF n = 0 THEN Zero ELSE FAdd(FSumTo(s, n - 1), s[n])
FSum(s) == FSumTo(s, Len(s))

\* np.mean: nan for an empty array
NpMean(s) == IF Len(s) = 0 THEN NaN ELSE FDiv(FSum(s), FromInt(Len(s)))

(***************************************************************************)
(* detect_missing_seasonality                                              *)
(***************************************************************************)
seasonality_threshold == Fin(15000)

\* len(fft) // 12 if len(fft) >= 12 else 1
SeasonalFreqIndex(n) == IF n >= 12 THEN n \div 12 ELSE 1

\* fft[index] / np.mean(fft[1:])
StrengthAt(fft, index) == FDiv(fft[index + 1], NpMean(Tail(fft)))

\* fft of an empty array raises ValueError, indexing past the end IndexError
SeasonalFailure(values) ==
    IF Len(values) = 0 THEN "ValueError"
    ELSE IF SeasonalFreqIndex(Len(values)) >= Len(values) THEN "IndexError"
    ELSE "none"

SeasonalStrength(values) ==
    IF SeasonalFailure(values) # "none" THEN Raises(SeasonalFailure(values))
    ELSE Returns(StrengthAt(AbsFFT(values), SeasonalFreqIndex(Len(values))))

MissingSeasonality(hist_seasonal_strength, forecast_seasonal_strength) ==
    /\ FGt(hist_seasonal_strength, seasonality_threshold)
    /\ ~FGt(forecast_seasonal_strength, seasonality_threshold)

SeasonalityConfidence(missing_seasonality, hist_seasonal_strength) ==
    PyMin(IF missing_seasonality
          THEN FDiv(hist_seasonal_strength, seasonality_threshold)
          ELSE Zero, One)

SeasonalityResult(missing_seasonality, hist_strength, forecast_strength) ==
    [detected |-> missing_seasonality,
     confidence |-> SeasonalityConfidence(missing_seasonality, hist_strength),
     hist_seasonal_strength |-> hist_strength,
     forecast_seasonal_strength |-> forecast_strength,
     threshold |-> seasonality_threshold]

SeasonalityOutcome(hist, fore) ==
    Both(hist, fore,
         SeasonalityResult(MissingSeasonality(hist.value, fore.value),
                           hist.value, fore.value))

detect_missing_seasonality(historical_data, forecast_data) ==
    SeasonalityOutcome(SeasonalStrength(historical_data),
                       SeasonalStrength(forecast_data))

(***************************************************************************)
(* detect_volatility_mismatch                                              *)
(***************************************************************************)
volatility_threshold == Half

\* std / mean if mean != 0 else 0
CoefficientOfVariation(s) ==
    IF FNe(Mean(s), Zero) THEN FDiv(Std(s), Mean(s)) ELSE Zero

\* forecast_cv / hist_cv if hist_cv != 0 else 1
\* a faulty variant: the guard "if hist_cv != 0 else 1" is left out
VolatilityRatioUnguarded(hist_cv, forecast_cv) == FDiv(forecast_cv, hist_cv)

\* a faulty variant: the quotient is taken the other way round
VolatilityRatioInverted(hist_cv, forecast_cv) ==
    IF FNe(hist_cv, Zero) THEN FDiv(hist_cv, forecast_cv) ELSE One

VolatilityRatio(hist_cv, forecast_cv) ==
    IF FNe(hist_cv, Zero) THEN FDiv(forecast_cv, hist_cv) ELSE One

TooFlat(volatility_ratio) == FLt(volatility_ratio, volatility_threshold)

\* a faulty variant: the conditional "if too_flat else 0" is left out
VolatilityConfidenceUnguarded(too_flat, volatility_ratio) ==
    FDiv(FSub(volatility_threshold, volatility_ratio), volatility_threshold)

VolatilityConfidence(too_flat, volatility_ratio) ==
    IF too_flat
    THEN FDiv(FSub(volatility_threshold, volatility_ratio), volatility_threshold)
    ELSE Zero

VolatilityResult(hist_cv, forecast_cv, volatility_ratio) ==
    [detected |-> TooFlat(volatility_ratio),
     confidence |-> VolatilityConfidence(TooFlat(volatility_ratio),
                                         volatility_ratio),
     hist_cv |-> hist_cv,
     forecast_cv |-> forecast_cv,
     volatility_ratio |-> volatility_ratio,
     threshold |-> volatility_threshold]

VolatilityOf(hist_cv, forecast_cv) ==
    VolatilityResult(hist_cv, forecast_cv, VolatilityRatio(hist_cv, forecast_cv))

detect_volatility_mismatch(historical_data, forecast_data) ==
    Returns(VolatilityOf(CoefficientOfVariation(historical_data),
                         CoefficientOfVariation(forecast_data)))

(***************************************************************************)
(* detect_magnitude_mismatch                                               *)
(***************************************************************************)
magnitude_threshold == Half

PctDiff(recent_mean, forecast_mean) ==
    IF FNe(recent_mean, Zero)
    THEN FDiv(FAbs(FSub(forecast_mean, recent_mean)), recent_mean)
    ELSE IF FNe(forecast_mean, Zero) THEN PosInf ELSE Zero

\* a faulty variant: >= instead of >
MagnitudeMismatchInclusive(pct_diff) == ~FLt(pct_diff, magnitude_threshold)

MagnitudeMismatch(pct_diff) == FGt(pct_diff, magnitude_threshold)

\* a faulty variant: the difference is not divided by the threshold
MagnitudeConfidenceUnscaled(magnitude_mismatch, pct_diff) ==
    IF magnitude_mismatch THEN PyMin(pct_diff, One) ELSE Zero

\* a faulty variant: the clamp min(..., 1.0) is left out
MagnitudeConfidenceUnclamped(magnitude_mismatch, pct_diff) ==
    IF magnitude_mismatch THEN FDiv(pct_diff, magnitude_threshold) ELSE Zero

MagnitudeConfidence(magnitude_mismatch, pct_diff) ==
    IF magnitude_mismatch THEN PyMin(FDiv(pct_diff, magnitude_threshold), One)
    ELSE Zero

MagnitudeResult(recent_mean, forecast_mean, pct_diff) ==
    [detected |-> MagnitudeMismatch(pct_diff),
     confidence |-> MagnitudeConfidence(MagnitudeMismatch(pct_diff), pct_diff),
     recent_mean |-> recent_mean,
     forecast_mean |-> forecast_mean,
     pct_difference |-> pct_diff,
     threshold |-> magnitude_threshold]

MagnitudeOf(recent_mean, forecast_mean) ==
    MagnitudeResult(recent_mean, forecast_mean, PctDiff(recent_mean, forecast_mean))

detect_magnitude_mismatch(recent_actuals, early_forecast) ==
    Returns(MagnitudeOf(Mean(recent_actuals), Mean(early_forecast)))

(***************************************************************************)
(* run_all_diagnostics: the summary                                        *)
(***************************************************************************)
DetectorNames ==
    <<"trend_mismatch", "missing_seasonality", "volatility_mismatch",
      "magnitude_mismatch">>

\* the detector results in the insertion order of the dict
ResultValues(results) == [i \in 1..Len(DetectorNames) |-> results[DetectorNames[i]]]

\* [result['confidence'] for result in results.values() if result['detected']]
RECURSIVE DetectedConfidences(_)
DetectedConfidences(rs) ==
    IF Len(rs) = 0 THEN <<>>
    ELSE IF Head(rs).detected
         THEN <<Head(rs).confidence>> \o DetectedConfidences(Tail(rs))
         ELSE DetectedConfidences(Tail(rs))

\* sum(1 for result in results.values() if result['detected'])
DetectedIssues(rs) == Len(DetectedConfidences(rs))

\* a faulty variant: the mean is taken over all results, detected or not
AvgConfidenceOverAll(rs) ==
    FDiv(FSum(DetectedConfidences(rs)), FromInt(Len(rs)))

AvgConfidence(rs) == NpMean(DetectedConfidences(rs))

Summary(results) ==
    LET rs == ResultValues(results)
        detected_issues == DetectedIssues(rs)
        avg_confidence == AvgConfidence(rs)
    IN  [total_issues |-> detected_issues,
         avg_confidence |-> IF detected_issues > 0 THEN avg_confidence ELSE Zero,
         risk_score |-> IF detected_issues > 0
                        THEN FMul(FromInt(detected_issues), avg_confidence)
                        ELSE Zero]

(***************************************************************************)
(* The series the callers pass in.                                         *)
(***************************************************************************)
(***************************************************************************)
(* run_all_diagnostics as a function of its four arguments: the entries of *)
(* the dict literal are evaluated in the order written, the first          *)
(* exception leaves the function, else the summary is added.               *)
(***************************************************************************)
DetectorOutcomes(h, f, r, e) ==
    <<detect_trend_mismatch(h, f), detect_missing_seasonality(h, f),
      detect_volatility_mismatch(h, f), detect_magnitude_mismatch(r, e)>>

RECURSIVE FirstRaised(_)
FirstRaised(outcomes) ==
    IF Len(outcomes) = 0 THEN "none"
    ELSE IF Head(outcomes).raised # "none" THEN Head(outcomes).raised
    ELSE FirstRaised(Tail(outcomes))

RECURSIVE ResultsOf(_, _)
ResultsOf(names, outcomes) ==
    IF Len(names) = 0 THEN [d \in {} |-> 0]
    ELSE ResultsOf(Tail(names), Tail(outcomes)) @@ (Head(names) :> Head(outcomes).value)

WithSummary(results) == ("summary" :> Summary(results)) @@ results

Aggregate(outcomes) ==
    IF FirstRaised(outcomes) # "none" THEN Raises(FirstRaised(outcomes))
    ELSE Returns(WithSummary(ResultsOf(DetectorNames, outcomes)))

run_all_diagnostics(h, f, r, e) == Aggregate(DetectorOutcomes(h, f, r, e))

Vals == (0 - MaxVal)..MaxVal

RECURSIVE SeqsOfLen(_)
SeqsOfLen(n) ==
    IF n = 0 THEN {<<>>}
    ELSE {Append(s, v) : s \in SeqsOfLen(n - 1), v \in Vals}

ShortSeries == UNION {SeqsOfLen(n) : n \in 0..MaxLen}

\* one annual cycle, 2 cos(2 pi j / 12) rounded to integers
Season12 == <<2, 2, 1, 0, -1, -2, -2, -2, -1, 0, 1, 2>>

\* n points of the cycle with the given period, amplitude and level
Wave(n, period, amp, level) ==
    [j \in 1..n |-> level + amp * Season12[(((j - 1) * (12 \div period)) % 12) + 1]]

\* <<length, period>>: half a year, one year, the 18 forecast months, two years
WaveShapes == {<<6, 6>>, <<12, 12>>, <<18, 12>>, <<24, 12>>}

\* <<amplitude, level>>: a flat series, a cycle around 3, a cycle around 0
WaveLevels == {<<0, 3>>, <<1, 3>>, <<1, 0>>}

LongSeries == {Wave(sh[1], sh[2], al[1], al[2]) : sh \in WaveShapes, al \in WaveLevels}

Series == ShortSeries \cup LongSeries

\* get_recent_actuals / get_early_forecast: months: int = 6
DefaultMonths == 6

(***************************************************************************)
(* The reference fixture of simple_test.py.                                *)
(***************************************************************************)
\* historical: 36 months showing a seasonal pattern and a trend
FixtureHistorical ==
    <<100, 120, 110, 90, 80, 85, 105, 125, 115, 95, 85, 90,
      110, 130, 120, 100, 90, 95, 115, 135, 125, 105, 95, 100,
      120, 140, 130, 110, 100, 105, 125, 145, 135, 115, 105, 110>>

\* forecast: 18 months, a flat line
FixtureForecast == [j \in 1..18 |-> 112]

(***************************************************************************)
(* The loader: the data frame and get_item_data.                           *)
(***************************************************************************)
\* the record count get_item_data insists on
ExpectedMonths == 54

\* The cells of the numeric columns: <<v>> holds v, <<>> is a missing value
\* (NaN in the frame).
Cell(v) == <<v>>
Null == <<>>

\* One row of data.csv.
Row(item, month, qty, forecast) ==
    [item_loc_id |-> item, FORECAST_MONTH |-> month,
     clean_qty |-> qty, best_model_forecast |-> forecast]

\* the demand of a month: the fixture, repeated after its 36 months
Demand(month) == FixtureHistorical[((month - 1) % Len(FixtureHistorical)) + 1]

\* The items of the frame: <<id, number of rows, months without clean_qty>>.
\* ITEM_FIXTURE is the fixture, ITEM_GAPS misses every third month,
\* ITEM_NO_FORECAST and ITEM_ONE_ACTUAL are split at the ends, ITEM_SHORT and
\* ITEM_LONG miss the record count by one, and one id holds the text of an
\* issue heading.
Catalog ==
    {<<"ITEM_FIXTURE", ExpectedMonths, 37..ExpectedMonths>>,
     <<"ITEM_GAPS", ExpectedMonths, {m \in 1..ExpectedMonths : m % 3 = 0}>>,
     <<"ITEM_NO_FORECAST", ExpectedMonths, {}>>,
     <<"ITEM_ONE_ACTUAL", ExpectedMonths, 2..ExpectedMonths>>,
     <<"ITEM_SHORT", ExpectedMonths - 1, 37..ExpectedMonths>>,
     <<"ITEM_LONG", ExpectedMonths + 1, 37..(ExpectedMonths + 1)>>,
     <<"TREND MISMATCH", ExpectedMonths, 37..ExpectedMonths>>}

ItemIds == {c[1] : c \in Catalog}

\* The rows of one item as the file holds them: the months are not in order
\* (the odd months descending, then the even months ascending).
FileMonth(j, n) == IF 2 * j <= n + 1 THEN n - ((n + 1) % 2) - 2 * (j - 1)
                   ELSE 2 * (j - ((n + 1) \div 2))

ItemRows(c) ==
    [j \in 1..c[2] |->
        Row(c[1], FileMonth(j, c[2]),
            IF FileMonth(j, c[2]) \in c[3] THEN Null
            ELSE Cell(Demand(FileMonth(j, c[2]))),
            Cell(FixtureForecast[1]))]

\* pd.read_csv: the frame, the rows of all the items one after another
RECURSIVE Concat(_)
Concat(rowsets) ==
    IF rowsets = {} THEN <<>>
    ELSE ItemRows(CHOOSE c \in rowsets : TRUE)
         \o Concat(rowsets \ {CHOOSE c \in rowsets : TRUE})

DataFrame == Concat(Catalog)

\* sort_values('FORECAST_MONTH'): insertion of a row into a sorted frame
RECURSIVE InsertRow(_, _)
InsertRow(row, sorted) ==
    IF sorted = <<>> THEN <<row>>
    ELSE IF row.FORECAST_MONTH < Head(sorted).FORECAST_MONTH THEN <<row>> \o sorted
    ELSE <<Head(sorted)>> \o InsertRow(row, Tail(sorted))

RECURSIVE SortValues(_)
SortValues(rows) ==
    IF rows = <<>> THEN <<>> ELSE InsertRow(Head(rows), SortValues(Tail(rows)))

HasQty(row) == row.clean_qty # Null
LacksQty(row) == row.clean_qty = Null

\* a column of a frame, as a series with a fresh index
RECURSIVE Column(_, _)
Column(rows, name) ==
    IF rows = <<>> THEN <<>> ELSE <<Head(rows)[name][1]>> \o Column(Tail(rows), name)

\* the two series of a frame of the right size
SplitFrame(item_df) ==
    [historical_data |-> Column(SelectSeq(item_df, HasQty), "clean_qty"),
     forecast_data |-> Column(SelectSeq(item_df, LacksQty), "best_model_forecast")]

ItemFrame(df, item_loc_id) ==
    SortValues(SelectSeq(df, LAMBDA row : row.item_loc_id = item_loc_id))

\* a faulty variant: only a frame that is too short is refused
CheckedFrameAtLeast(item_df) ==
    IF Len(item_df) < ExpectedMonths THEN Raises("ValueError")
    ELSE Returns(SplitFrame(item_df))

CheckedFrame(item_df) ==
    IF Len(item_df) # ExpectedMonths THEN Raises("ValueError")
    ELSE Returns(SplitFrame(item_df))

get_item_data(df, item_loc_id) == CheckedFrame(ItemFrame(df, item_loc_id))

(***************************************************************************)
(* The explainer.  A text is the sequence of its pieces; a formatted number *)
(* is the piece "#", whatever the number.                                  *)
(***************************************************************************)
Number == "#"

\* keyword in text
Contains(text, keyword) == \E i \in 1..Len(text) : text[i] = keyword

TrendIssue(trend_info) ==
    <<"- ", "TREND MISMATCH", " (confidence: ", Number, "): ",
      "Historical trend is ", trend_info.historical_trend,
      " but forecast trend is ", trend_info.forecast_trend, "\n">>

SeasonIssue(season_info) ==
    <<"- ", "MISSING SEASONALITY", " (confidence: ", Number, "): ",
      "Historical data shows seasonal patterns (strength: ", Number,
      ") but forecast appears flat (strength: ", Number, ")", "\n">>

VolatilityIssue(vol_info) ==
    <<"- ", "VOLATILITY MISMATCH", " (confidence: ", Number, "): ",
      "Forecast is too flat compared to historical volatility. ",
      "Historical CV: ", Number, ", Forecast CV: ", Number, "\n">>

MagnitudeIssue(mag_info) ==
    <<"- ", "MAGNITUDE MISMATCH", " (confidence: ", Number, "): ",
      "Early forecast mean (", Number, ") differs significantly ",
      "from recent actuals mean (", Number, ") by ", Number, "%", "\n">>

\* issues_detected, the entries joined
IssuesDetected(diagnostics) ==
    (IF diagnostics["trend_mismatch"].detected
     THEN TrendIssue(diagnostics["trend_mismatch"]) ELSE <<>>)
    \o (IF diagnostics["missing_seasonality"].detected
        THEN SeasonIssue(diagnostics["missing_seasonality"]) ELSE <<>>)
    \o (IF diagnostics["volatility_mismatch"].detected
        THEN VolatilityIssue(diagnostics["volatility_mismatch"]) ELSE <<>>)
    \o (IF diagnostics["magnitude_mismatch"].detected
        THEN MagnitudeIssue(diagnostics["magnitude_mismatch"]) ELSE <<>>)

SummaryHead(item_id, historical_data, forecast_data) ==
    <<"Analysis for item ", item_id, ":", "\n",
      "Historical data: ", Number, " months, mean=", Number, ", std=", Number, "\n",
      "Forecast data: ", Number, " months, mean=", Number, ", std=", Number, "\n",
      "\n">>

SummaryText(summary_head, issues_detected) ==
    summary_head
    \o (IF issues_detected # <<>> THEN <<"ISSUES DETECTED:", "\n">> \o issues_detected
        ELSE <<"No significant issues detected.">>)

prepare_analysis_summary(item_id, diagnostics, historical_data, forecast_data) ==
    SummaryText(SummaryHead(item_id, historical_data, forecast_data),
                IssuesDetected(diagnostics))

\* The mock explanations, each named by its first sentence.
TrendAndSeasonality == "The forecast appears problematic due to multiple issues."
TrendAndVolatility ==
    "The forecast shows concerning issues with both trend direction and volatility."
TrendOnly ==
    "There's a significant trend mismatch between historical data and the forecast."
SeasonalityOnly ==
    "The forecast appears to miss important seasonal patterns present in the historical data."
VolatilityOnly ==
    "The forecast appears unusually flat compared to the natural variation seen in historical data."
MagnitudeOnly ==
    "There's a significant gap between recent actual demand levels and the early forecast predictions."
WellAligned == "The forecast appears well-aligned with historical patterns."

\* a faulty variant: seasonality is looked for before the trend and magnitude
\* before volatility
generate_mock_explanation_season_first(analysis_summary) ==
    IF Contains(analysis_summary, "MISSING SEASONALITY")
    THEN (IF Contains(analysis_summary, "TREND MISMATCH") THEN TrendAndSeasonality
          ELSE SeasonalityOnly)
    ELSE IF Contains(analysis_summary, "TREND MISMATCH")
    THEN (IF Contains(analysis_summary, "VOLATILITY MISMATCH") THEN TrendAndVolatility
          ELSE TrendOnly)
    ELSE IF Contains(analysis_summary, "MAGNITUDE MISMATCH") THEN MagnitudeOnly
    ELSE IF Contains(analysis_summary, "VOLATILITY MISMATCH") THEN VolatilityOnly
    ELSE WellAligned

generate_mock_explanation(analysis_summary) ==
    IF Contains(analysis_summary, "TREND MISMATCH")
    THEN (IF Contains(analysis_summary, "MISSING SEASONALITY") THEN TrendAndSeasonality
          ELSE IF Contains(analysis_summary, "VOLATILITY MISMATCH")
          THEN TrendAndVolatility
          ELSE TrendOnly)
    ELSE IF Contains(analysis_summary, "MISSING SEASONALITY") THEN SeasonalityOnly
    ELSE IF Contains(analysis_summary, "VOLATILITY MISMATCH") THEN VolatilityOnly
    ELSE IF Contains(analysis_summary, "MAGNITUDE MISMATCH") THEN MagnitudeOnly
    ELSE WellAligned

\* use_mock = True, as every caller passes it
generate_explanation(analysis_summary) == generate_mock_explanation(analysis_summary)

format_explanation_report(item_id, diagnostics, explanation) ==
    [item_id |-> item_id,
     risk_score |-> diagnostics["summary"].risk_score,
     total_issues |-> diagnostics["summary"].total_issues,
     avg_confidence |-> diagnostics["summary"].avg_confidence,
     explanation |-> explanation,
     detailed_diagnostics |-> diagnostics]

(***************************************************************************)
(* State: one run of a caller (app.main, test_system): the item is loaded,  *)
(* run_all_diagnostics is invoked, the result is explained and shown.      *)
(***************************************************************************)
VARIABLES
    historical_data,   \* the four arguments
    forecast_data,
    recent_actuals,
    early_forecast,
    results,           \* the dict under construction, detector name -> result
    pc,                \* the statement about to run
    error,             \* the exception in flight, "none" without one
    ret,               \* <<value>> once run_all_diagnostics has returned
    selected_item,     \* the item the run is about
    report,            \* <<report>> once the explanation is formatted
    screen             \* what the page shows for the item

vars == <<historical_data, forecast_data, recent_actuals, early_forecast,
          results, pc, error, ret, selected_item, report, screen>>

\* the caller's own state, which run_all_diagnostics does not see
caller == <<selected_item, report, screen>>

\* an item id for series that do not come from the frame
DirectItem == "ITEM_0"

NoResults == [d \in {} |-> 0]

Init ==
    /\ historical_data = <<>>
    /\ forecast_data = <<>>
    /\ recent_actuals = <<>>
    /\ early_forecast = <<>>
    /\ results = NoResults
    /\ pc = "idle"
    /\ error = "none"
    /\ ret = <<>>
    /\ selected_item = ""
    /\ report = <<>>
    /\ screen = {}

\* the caller slices the windows (months is left at its default) and calls
\* run_all_diagnostics
Invoke(item, h, f) ==
    /\ selected_item' = item
    /\ report' = <<>>
    /\ screen' = {}
    /\ historical_data' = h
    /\ forecast_data' = f
    /\ recent_actuals' = SeriesTail(h, DefaultMonths)
    /\ early_forecast' = SeriesHead(f, DefaultMonths)
    /\ results' = NoResults
    /\ pc' = "trend_mismatch"
    /\ error' = "none"
    /\ ret' = <<>>

\* a caller that holds two series of its own
Call ==
    /\ pc = "idle"
    /\ \E h \in Series, f \in Series : Invoke(DirectItem, h, f)

\* get_item_data raised: nothing is bound, the exception goes to the handler
LoadFailed(item, e) ==
    /\ selected_item' = item
    /\ pc' = "raised"
    /\ error' = e
    /\ UNCHANGED <<historical_data, forecast_data, recent_actuals,
                   early_forecast, results, ret, report, screen>>

Loaded(item, data) ==
    IF data.raised # "none" THEN LoadFailed(item, data.raised)
    ELSE Invoke(item, data.value.historical_data, data.value.forecast_data)

\* the item is selected and loaded from the frame
Select ==
    /\ pc = "idle"
    /\ \E item \in ItemIds : Loaded(item, get_item_data(DataFrame, item))

\* load_data raised: the file is not there and no item is selected
FileMissing ==
    /\ pc = "idle"
    /\ LoadFailed("", "FileNotFoundError")

\* a faulty variant: a failing detector is replaced by a default entry and the
\* diagnosis goes on
EntryWithDefault(name, outcome, next) ==
    /\ pc = name
    /\ results' = (name :> (IF outcome.raised = "none" THEN outcome.value
                            ELSE [detected |-> FALSE, confidence |-> Zero]))
                   @@ results
    /\ pc' = next
    /\ error' = "none"
    /\ UNCHANGED <<historical_data, forecast_data, recent_actuals,
                   early_forecast, ret>>
    /\ UNCHANGED caller

\* a faulty variant: a detector trims the history it was given in place
EntryTrimmingInput(name, outcome, next) ==
    /\ pc = name
    /\ IF outcome.raised = "none"
       THEN /\ results' = (name :> outcome.value) @@ results
            /\ pc' = next
            /\ error' = "none"
       ELSE /\ results' = NoResults
            /\ pc' = "raised"
            /\ error' = outcome.raised
    /\ historical_data' = SeriesTail(historical_data, DefaultMonths)
    /\ UNCHANGED <<forecast_data, recent_actuals, early_forecast, ret>>
    /\ UNCHANGED caller

\* One entry of the dict literal: the detector's result is stored under its
\* name, or its exception leaves run_all_diagnostics (there is no handler) and
\* the entries built so far are dropped with the frame.
Entry(name, outcome, next) ==
    /\ pc = name
    /\ IF outcome.raised = "none"
       THEN /\ results' = (name :> outcome.value) @@ results
            /\ pc' = next
            /\ error' = "none"
       ELSE /\ results' = NoResults
            /\ pc' = "raised"
            /\ error' = outcome.raised
    /\ UNCHANGED <<historical_data, forecast_data, recent_actuals,
                   early_forecast, ret>>
    /\ UNCHANGED caller

RunTrend ==
    Entry("trend_mismatch",
          detect_trend_mismatch(historical_data, forecast_data),
          "missing_seasonality")

RunSeasonality ==
    Entry("missing_seasonality",
          detect_missing_seasonality(historical_data, forecast_data),
          "volatility_mismatch")

RunVolatility ==
    Entry("volatility_mismatch",
          detect_volatility_mismatch(historical_data, forecast_data),
          "magnitude_mismatch")

RunMagnitude ==
    Entry("magnitude_mismatch",
          detect_magnitude_mismatch(recent_actuals, early_forecast),
          "summary")

\* results['summary'] = {...}; return results
Summarize ==
    /\ pc = "summary"
    /\ results' = ("summary" :> Summary(results)) @@ results
    /\ ret' = <<results'>>
    /\ pc' = "returned"
    /\ UNCHANGED <<historical_data, forecast_data, recent_actuals,
                   early_forecast, error>>
    /\ UNCHANGED caller

\* prepare_analysis_summary, generate_explanation, format_explanation_report
Explain ==
    /\ pc = "returned"
    /\ report' = <<format_explanation_report(
                       selected_item, ret[1],
                       generate_explanation(
                           prepare_analysis_summary(selected_item, ret[1],
                                                    historical_data,
                                                    forecast_data)))>>
    /\ ret' = <<>>
    /\ pc' = "report"
    /\ UNCHANGED <<historical_data, forecast_data, recent_actuals,
                   early_forecast, results, error, selected_item, screen>>

\* what the page shows of a report
ResultElements ==
    {"chart", "statistics", "risk_score", "total_issues", "avg_confidence",
     "issues", "explanation", "detailed_diagnostics", "data_preview"}

\* a faulty variant: the handler shows a zeroed risk score with the error
ShowErrorWithZeroRisk ==
    /\ pc = "raised"
    /\ screen' = {"error", "risk_score", "total_issues"}
    /\ pc' = "error"
    /\ UNCHANGED <<historical_data, forecast_data, recent_actuals,
                   early_forecast, results, error, ret, selected_item, report>>

\* the page of the item: chart, statistics, risk, issues, explanation
Display ==
    /\ pc = "report"
    /\ screen' = ResultElements
    /\ pc' = "displayed"
    /\ UNCHANGED <<historical_data, forecast_data, recent_actuals,
                   early_forecast, results, error, ret, selected_item, report>>

\* except FileNotFoundError / except Exception: st.error(...)
ShowError ==
    /\ pc = "raised"
    /\ screen' = {"error"}
    /\ pc' = "error"
    /\ UNCHANGED <<historical_data, forecast_data, recent_actuals,
                   early_forecast, results, error, ret, selected_item, report>>

\* the run is over; nothing is kept for the next one
Finish ==
    /\ pc \in {"displayed", "error"}
    /\ selected_item' = ""
    /\ report' = <<>>
    /\ screen' = {}
    /\ historical_data' = <<>>
    /\ forecast_data' = <<>>
    /\ recent_actuals' = <<>>
    /\ early_forecast' = <<>>
    /\ results' = NoResults
    /\ pc' = "idle"
    /\ error' = "none"
    /\ ret' = <<>>

Next ==
    \/ Call
    \/ FileMissing
    \/ Select
    \/ RunTrend
    \/ RunSeasonality
    \/ RunVolatility
    \/ RunMagnitude
    \/ Summarize
    \/ Explain
    \/ Display
    \/ ShowError
    \/ Finish

Spec == Init /\ [][Next]_vars

(***************************************************************************)
(* The same run with the four detector evaluations in any order: the       *)
(* caller fans out, each detector is evaluated once, at any time, on the   *)
(* arguments of the call, and the summary is computed when all four        *)
(* results are in.                                                         *)
(***************************************************************************)
\* <<history, forecast>>: two short series or two long ones
FanOutPairs == (ShortSeries \X ShortSeries) \cup (LongSeries \X LongSeries)

FanOut ==
    /\ pc = "idle"
    /\ \E p \in FanOutPairs :
           /\ selected_item' = DirectItem
           /\ report' = <<>>
           /\ screen' = {}
           /\ historical_data' = p[1]
           /\ forecast_data' = p[2]
           /\ recent_actuals' = SeriesTail(p[1], DefaultMonths)
           /\ early_forecast' = SeriesHead(p[2], DefaultMonths)
           /\ results' = NoResults
           /\ pc' = "fanout"
           /\ error' = "none"
           /\ ret' = <<>>

\* the join: the summary is next once the four results are stored
AfterGather(stored) ==
    IF {DetectorNames[i] : i \in 1..Len(DetectorNames)} \subseteq stored
    THEN "summary" ELSE "fanout"

\* a faulty variant with a dependency between the detectors: a detector that
\* is evaluated after another one has detected an issue reports none
GatherUnlessDetected(name, outcome) ==
    /\ pc = "fanout"
    /\ name \notin DOMAIN results
    /\ IF outcome.raised = "none"
       THEN /\ results' =
                   (name :> (IF \E d \in DOMAIN results : results[d].detected
                             THEN [detected |-> FALSE, confidence |-> Zero]
                                      @@ outcome.value
                             ELSE outcome.value)) @@ results
            /\ pc' = AfterGather(DOMAIN results')
            /\ error' = "none"
       ELSE /\ results' = NoResults
            /\ pc' = "raised"
            /\ error' = outcome.raised
    /\ UNCHANGED <<historical_data, forecast_data, recent_actuals,
                   early_forecast, ret>>
    /\ UNCHANGED caller

\* one detector evaluation, whichever the others that are done
Gather(name, outcome) ==
    /\ pc = "fanout"
    /\ name \notin DOMAIN results
    /\ IF outcome.raised = "none"
       THEN /\ results' = (name :> outcome.value) @@ results
            /\ pc' = AfterGather(DOMAIN results')
            /\ error' = "none"
       ELSE /\ results' = NoResults
            /\ pc' = "raised"
            /\ error' = outcome.raised
    /\ UNCHANGED <<historical_data, forecast_data, recent_actuals,
                   early_forecast, ret>>
    /\ UNCHANGED caller

GatherTrend ==
    Gather("trend_mismatch", detect_trend_mismatch(historical_data, forecast_data))

GatherSeasonality ==
    Gather("missing_seasonality",
           detect_missing_seasonality(historical_data, forecast_data))

GatherVolatility ==
    Gather("volatility_mismatch",
           detect_volatility_mismatch(historical_data, forecast_data))

GatherMagnitude ==
    Gather("magnitude_mismatch",
           detect_magnitude_mismatch(recent_actuals, early_forecast))

NextAnyOrder ==
    \/ FanOut
    \/ GatherTrend
    \/ GatherSeasonality
    \/ GatherVolatility
    \/ GatherMagnitude
    \/ Summarize
    \/ Explain
    \/ Display
    \/ ShowError
    \/ Finish

AnyOrderSpec == Init /\ [][NextAnyOrder]_vars

(***************************************************************************)
(* Properties.                                                             *)
(***************************************************************************)
Detectors ==
    {"trend_mismatch", "missing_seasonality", "volatility_mismatch",
     "magnitude_mismatch"}

\* the detector results stored so far
Stored == Detectors \cap DOMAIN results

InUnitInterval(c) == IsFinite(c) /\ ~FLt(c, Zero) /\ ~FGt(c, One)

IsConstant(s) == \A j \in 1..Len(s) : s[j] = s[1]

\* C1: every confidence a detector returns lies in the closed interval
\* [0, 1], the volatility detector's included, whatever the signs of the
\* means of the two segments.
C1_ConfidenceInUnitInterval ==
    \A d \in Stored : InUnitInterval(results[d].confidence)

\* C2: whenever a detector returns detected = false, its confidence is 0.
C2_NotDetectedZeroConfidence ==
    \A d \in Stored : ~results[d].detected => results[d].confidence = Zero

\* all four detectors have returned, some detected and some not, and one of
\* those not detected measured an undefined (NaN) seasonal strength
C2_Witness ==
    /\ Stored = Detectors
    /\ \E d \in Detectors : results[d].detected
    /\ ~results["missing_seasonality"].detected
    /\ IsNaN(results["missing_seasonality"].hist_seasonal_strength)
    /\ results["missing_seasonality"].confidence = Zero

\* C3: in every result run_all_diagnostics returns, total_issues is the
\* number of detectors with detected = true, avg_confidence is the mean of
\* the confidences of the detected results only (0 when there is none),
\* risk_score = total_issues * avg_confidence, so risk_score is 0 without
\* an issue and the sole detected confidence with exactly one issue.
C3_SummaryAggregates ==
    pc = "returned" =>
        LET r == ret[1]
            detected == {d \in Detectors : r[d].detected}
            n == Cardinality(detected)
            conf(d) == IF r[d].detected THEN r[d].confidence ELSE Zero
            total == FAdd(FAdd(FAdd(conf("trend_mismatch"),
                                    conf("missing_seasonality")),
                               conf("volatility_mismatch")),
                          conf("magnitude_mismatch"))
        IN  /\ r["summary"].total_issues = n
            /\ r["summary"].avg_confidence =
                   (IF n = 0 THEN Zero ELSE FDiv(total, FromInt(n)))
            /\ r["summary"].risk_score =
                   FMul(FromInt(n), r["summary"].avg_confidence)
            /\ n = 0 => r["summary"].risk_score = Zero
            /\ n = 1 => \A d \in detected :
                            r["summary"].risk_score = r[d].confidence

\* a returned result with two issues of different confidences and one
\* detector that found nothing with a confidence of 0
C3_Witness ==
    /\ pc = "returned"
    /\ ret[1]["summary"].total_issues = 2
    /\ \E d, e \in Detectors :
           /\ ret[1][d].detected
           /\ ret[1][e].detected
           /\ FLt(ret[1][d].confidence, ret[1][e].confidence)
    /\ FLt(ret[1]["summary"].avg_confidence, One)

\* C4: risk_score and avg_confidence of every returned result are finite;
\* an infinite pct_difference gives the clamped confidence 1.0, and no NaN
\* or infinite measurement of a detector reaches risk_score.  (The series are
\* integer observations: a mean is 0 or at least 1/n in magnitude, and no
\* quotient of finite operands leaves the range of a double.)
C4_RiskScoreFinite ==
    pc = "returned" =>
        /\ IsFinite(ret[1]["summary"].risk_score)
        /\ IsFinite(ret[1]["summary"].avg_confidence)
        /\ IsInf(ret[1]["magnitude_mismatch"].pct_difference) =>
               /\ ret[1]["magnitude_mismatch"].detected
               /\ ret[1]["magnitude_mismatch"].confidence = One

\* a returned result whose pct_difference is +infinity, whose forecast
\* seasonal strength is NaN, and whose risk is finite and not 0
C4_Witness ==
    /\ pc = "returned"
    /\ ret[1]["magnitude_mismatch"].pct_difference = PosInf
    /\ IsNaN(ret[1]["missing_seasonality"].forecast_seasonal_strength)
    /\ FGt(ret[1]["summary"].risk_score, Zero)

\* C5: detect_trend_mismatch returns detected = true exactly when one
\* fitted slope is > 0 and the other is < 0; with a slope of exactly 0, or
\* slopes of the same sign, detected = false.
C5_TrendDetectedIffOppositeSigns ==
    "trend_mismatch" \in DOMAIN results =>
        (results["trend_mismatch"].detected
         <=> FSign(results["trend_mismatch"].hist_slope)
             * FSign(results["trend_mismatch"].forecast_slope) = 0 - 1)

\* a rising history against a falling forecast, detected
C5_Witness ==
    /\ "trend_mismatch" \in DOMAIN results
    /\ results["trend_mismatch"].detected
    /\ FGt(results["trend_mismatch"].hist_slope, Zero)
    /\ FLt(results["trend_mismatch"].forecast_slope, Zero)

\* C6: called with a historical or a forecast segment of fewer than 2
\* points, detect_trend_mismatch fails and returns no result.
C6_ShortSegmentNoTrendResult ==
    "trend_mismatch" \in DOMAIN results =>
        Len(historical_data) >= 2 /\ Len(forecast_data) >= 2

\* C7: when a detector fails, run_all_diagnostics returns nothing: a
\* returned result holds the four results of detectors that did not fail
\* and a summary, and a failed run leaves no result, default or partial.
C7_FailurePropagates ==
    /\ pc = "returned" =>
           /\ linregress(historical_data).raised = "none"
           /\ linregress(forecast_data).raised = "none"
           /\ SeasonalFailure(historical_data) = "none"
           /\ SeasonalFailure(forecast_data) = "none"
           /\ DOMAIN ret[1] = Detectors \cup {"summary"}
    /\ pc = "raised" => error # "none" /\ ret = <<>> /\ results = NoResults
    /\ pc # "returned" => ret = <<>>

\* the seasonality detector failed after the trend detector had returned
C7_Witness ==
    /\ pc = "raised"
    /\ error = "IndexError"
    /\ linregress(historical_data).raised = "none"
    /\ linregress(forecast_data).raised = "none"

\* C8: for segments of length >= 1 the selected bin, floor(n/12) for
\* n >= 12 and 1 otherwise, is never bin 0 and always exists, so that
\* detect_missing_seasonality returns a result, length 1 included.
C8_SeasonalBinExists ==
    (/\ Len(historical_data) >= 1
     /\ Len(forecast_data) >= 1
     /\ pc \notin {"idle", "trend_mismatch", "missing_seasonality"}) =>
        /\ SeasonalFreqIndex(Len(historical_data)) \in 1..(Len(historical_data) - 1)
        /\ SeasonalFreqIndex(Len(forecast_data)) \in 1..(Len(forecast_data) - 1)
        /\ "missing_seasonality" \in DOMAIN results

\* C9: with a constant forecast segment, forecast_seasonal_strength is a
\* number near 0 and detected = true exactly when the historical strength
\* exceeds 1.5.
C9_ConstantForecastStrengthNearZero ==
    ("missing_seasonality" \in DOMAIN results /\ IsConstant(forecast_data)) =>
        /\ IsFinite(results["missing_seasonality"].forecast_seasonal_strength)
        /\ FLt(FAbs(results["missing_seasonality"].forecast_seasonal_strength),
               Half)
        /\ results["missing_seasonality"].detected
           <=> FGt(results["missing_seasonality"].hist_seasonal_strength,
                   seasonality_threshold)

\* C10: pct_difference is |mean(E) - mean(R)| / mean(R) when mean(R) # 0,
\* +infinity when mean(R) = 0 and mean(E) # 0, and 0 when both are 0;
\* detected = true exactly when pct_difference > 0.5, strictly.
C10_MagnitudePctDifference ==
    "magnitude_mismatch" \in DOMAIN results =>
        LET m == results["magnitude_mismatch"]
            mR == Mean(recent_actuals)
            mE == Mean(early_forecast)
        IN  /\ FNe(mR, Zero) =>
                   m.pct_difference = FDiv(FAbs(FSub(mE, mR)), mR)
            /\ (FEq(mR, Zero) /\ FNe(mE, Zero)) => m.pct_difference = PosInf
            /\ (FEq(mR, Zero) /\ FEq(mE, Zero)) => m.pct_difference = Zero
            /\ m.detected <=> FGt(m.pct_difference, Half)
            /\ m.pct_difference = Half => ~m.detected

\* a difference of exactly 0.5, not detected
C10_Witness ==
    /\ "magnitude_mismatch" \in DOMAIN results
    /\ results["magnitude_mismatch"].pct_difference = Half
    /\ ~results["magnitude_mismatch"].detected

\* C11: whenever the historical coefficient of variation is 0 (a constant
\* history, or a history of mean 0), volatility_ratio is 1, detected is false
\* and the confidence is 0, whatever the forecast segment is.
C11_ConstantHistoryNeverTooFlat ==
    ("volatility_mismatch" \in DOMAIN results
     /\ (\/ results["volatility_mismatch"].hist_cv = Zero
         \/ IsConstant(historical_data)
         \/ SumSeq(historical_data) = 0)) =>
        /\ results["volatility_mismatch"].hist_cv = Zero
        /\ results["volatility_mismatch"].volatility_ratio = One
        /\ ~results["volatility_mismatch"].detected
        /\ results["volatility_mismatch"].confidence = Zero

\* a history of mean 0 that does vary, against a forecast that varies too
C11_Witness ==
    /\ "volatility_mismatch" \in DOMAIN results
    /\ SumSeq(historical_data) = 0
    /\ ~IsConstant(historical_data)
    /\ FNe(results["volatility_mismatch"].forecast_cv, Zero)
    /\ results["volatility_mismatch"].volatility_ratio = One

\* C12: for a history whose coefficient of variation is not 0 and a constant
\* forecast (standard deviation 0), detect_volatility_mismatch returns
\* detected = true with volatility_ratio = 0.
C12_ConstantForecastTooFlat ==
    ("volatility_mismatch" \in DOMAIN results
     /\ IsConstant(forecast_data)
     /\ IsFinite(results["volatility_mismatch"].hist_cv)
     /\ results["volatility_mismatch"].hist_cv # Zero) =>
        /\ results["volatility_mismatch"].detected
        /\ results["volatility_mismatch"].volatility_ratio = Zero

\* a history of negative coefficient of variation against a constant forecast
C12_Witness ==
    /\ "volatility_mismatch" \in DOMAIN results
    /\ IsConstant(forecast_data)
    /\ FLt(results["volatility_mismatch"].hist_cv, Zero)
    /\ results["volatility_mismatch"].detected
    /\ results["volatility_mismatch"].volatility_ratio = Zero

\* C19: the confidences of detect_missing_seasonality and of
\* detect_magnitude_mismatch are two-valued: exactly 1.0 when detected is
\* true and 0 otherwise, never a value in between.
C19_TwoValuedConfidence ==
    \A d \in Stored \cap {"missing_seasonality", "magnitude_mismatch"} :
        results[d].confidence = (IF results[d].detected THEN One ELSE Zero)

\* both detected, on a finite seasonal strength and a finite difference
\* between 0.5 and 1
C19_Witness ==
    /\ {"missing_seasonality", "magnitude_mismatch"} \subseteq Stored
    /\ results["missing_seasonality"].detected
    /\ IsFinite(results["missing_seasonality"].hist_seasonal_strength)
    /\ results["magnitude_mismatch"].detected
    /\ FLt(results["magnitude_mismatch"].pct_difference, One)
    /\ results["missing_seasonality"].confidence = One
    /\ results["magnitude_mismatch"].confidence = One

\* C13: on the reference fixture (36 historical values, 18 forecast values
\* of 112, the windows being the last 6 and the first 6 of them)
\* run_all_diagnostics returns missing_seasonality and volatility_mismatch
\* detected, total_issues >= 2 and risk_score > 0.
C13_FixtureEndToEnd ==
    (/\ pc = "returned"
     /\ historical_data = FixtureHistorical
     /\ forecast_data = FixtureForecast
     /\ recent_actuals = SubSeq(FixtureHistorical, 31, 36)
     /\ early_forecast = SubSeq(FixtureForecast, 1, 6)) =>
        /\ ret[1]["missing_seasonality"].detected
        /\ ret[1]["volatility_mismatch"].detected
        /\ ret[1]["summary"].total_issues >= 2
        /\ FGt(ret[1]["summary"].risk_score, Zero)

\* C17: get_item_data fails (ValueError) exactly when the item does not
\* have 54 records; when it succeeds the historical series holds the
\* clean_qty of the records that have one and the forecast series the
\* best_model_forecast of the records that have none, each in the order of
\* the months, so that the two lengths sum to 54.
C17_ItemDataShape ==
    selected_item \in ItemIds =>
        LET rows == {DataFrame[i] : i \in {k \in 1..Len(DataFrame) :
                         DataFrame[k].item_loc_id = selected_item}}
            actual == {r \in rows : r.clean_qty # Null}
            missing == {r \in rows : r.clean_qty = Null}
            rank(r, S) == Cardinality({q \in S : q.FORECAST_MONTH <= r.FORECAST_MONTH})
        IN  IF Cardinality(rows) # ExpectedMonths
            THEN /\ pc \in {"raised", "error"}
                 /\ error = "ValueError"
                 /\ historical_data = <<>>
                 /\ forecast_data = <<>>
                 /\ results = NoResults
            ELSE /\ Len(historical_data) = Cardinality(actual)
                 /\ Len(forecast_data) = Cardinality(missing)
                 /\ Len(historical_data) + Len(forecast_data) = ExpectedMonths
                 /\ \A r \in actual :
                        historical_data[rank(r, actual)] = r.clean_qty[1]
                 /\ \A r \in missing :
                        forecast_data[rank(r, missing)] = r.best_model_forecast[1]

\* the item whose missing months lie between the others is loaded and split
C17_Witness ==
    /\ selected_item = "ITEM_GAPS"
    /\ pc = "trend_mismatch"
    /\ Len(historical_data) = 36
    /\ Len(forecast_data) = 18
    /\ historical_data[3] = Demand(4)

\* C16: when loading or run_all_diagnostics raises for the selected item,
\* the page shows no risk score, issue count, chart or explanation of the
\* item, neither before the error nor after it: with an exception in flight
\* or handled the page holds at most the error, after the handler it holds
\* exactly the error, and a result element is on the page only after a run
\* that returned and was reported.
C16_ErrorShowsNoResult ==
    /\ error # "none" => screen \subseteq {"error"}
    /\ pc = "error" => screen = {"error"} /\ error # "none"
    /\ screen \cap ResultElements # {} =>
           /\ pc = "displayed"
           /\ error = "none"
           /\ report # <<>>

\* run_all_diagnostics raised for an item that was loaded, and the handler ran
C16_Witness ==
    /\ pc = "error"
    /\ selected_item = "ITEM_NO_FORECAST"
    /\ Len(historical_data) = ExpectedMonths
    /\ error = "ValueError"
    /\ screen = {"error"}

\* C18: for an item whose id holds no issue keyword, the explanation of a
\* report is the well-aligned text exactly when summary.total_issues is 0;
\* otherwise it is the explanation of the detected issues, chosen in the
\* priority trend+seasonality, trend+volatility, trend, seasonality,
\* volatility, magnitude.
IssueKeywords ==
    {"TREND MISMATCH", "MISSING SEASONALITY", "VOLATILITY MISMATCH",
     "MAGNITUDE MISMATCH"}

ExplanationByPriority(trend, season, volatility, magnitude) ==
    CASE trend /\ season -> TrendAndSeasonality
      [] trend /\ ~season /\ volatility -> TrendAndVolatility
      [] trend /\ ~season /\ ~volatility -> TrendOnly
      [] ~trend /\ season -> SeasonalityOnly
      [] ~trend /\ ~season /\ volatility -> VolatilityOnly
      [] ~trend /\ ~season /\ ~volatility /\ magnitude -> MagnitudeOnly
      [] OTHER -> WellAligned

C18_ExplanationMatchesIssues ==
    (pc \in {"report", "displayed"} /\ selected_item \notin IssueKeywords) =>
        /\ report[1].explanation = WellAligned <=> report[1].total_issues = 0
        /\ report[1].explanation =
               ExplanationByPriority(
                   report[1].detailed_diagnostics["trend_mismatch"].detected,
                   report[1].detailed_diagnostics["missing_seasonality"].detected,
                   report[1].detailed_diagnostics["volatility_mismatch"].detected,
                   report[1].detailed_diagnostics["magnitude_mismatch"].detected)

\* a report with volatility and magnitude detected, and neither of the others
C18_Witness ==
    /\ pc = "report"
    /\ selected_item \notin IssueKeywords
    /\ report[1].total_issues = 2
    /\ ~report[1].detailed_diagnostics["trend_mismatch"].detected
    /\ report[1].detailed_diagnostics["magnitude_mismatch"].detected
    /\ report[1].explanation = VolatilityOnly

\* C14: the detectors do not depend on one another: whatever the order in
\* which the four are evaluated between the fan-out and the join, a run that
\* returns returns the result of the sequential run_all_diagnostics on the
\* same arguments, and a run that fails is one that fails sequentially too.
C14_AnyOrderSameResult ==
    /\ pc = "returned" =>
           run_all_diagnostics(historical_data, forecast_data,
                               recent_actuals, early_forecast) = Returns(ret[1])
    /\ (pc = "raised" /\ selected_item = DirectItem) =>
           run_all_diagnostics(historical_data, forecast_data,
                               recent_actuals, early_forecast).raised # "none"

\* a run returned in which three detectors found an issue
C14_Witness ==
    /\ pc = "returned"
    /\ ret[1]["summary"].total_issues = 3
    /\ ret[1]["trend_mismatch"].detected
    /\ ret[1]["magnitude_mismatch"].detected

\* C15: run_all_diagnostics is a function of its four arguments: while it
\* runs the four sequences stay as they were passed, and what it returns or
\* raises is what the four arguments determine, whatever calls came before.
Running ==
    {"trend_mismatch", "missing_seasonality", "volatility_mismatch",
     "magnitude_mismatch", "summary"}

ArgumentsKept ==
    /\ historical_data' = historical_data
    /\ forecast_data' = forecast_data
    /\ recent_actuals' = recent_actuals
    /\ early_forecast' = early_forecast

C15_PureFunction ==
    /\ [](pc = "returned" =>
             run_all_diagnostics(historical_data, forecast_data,
                                 recent_actuals, early_forecast) = Returns(ret[1]))
    /\ []((pc = "raised" /\ selected_item = DirectItem) =>
             run_all_diagnostics(historical_data, forecast_data,
                                 recent_actuals, early_forecast).raised = error)
    /\ [][(pc \in Running) => ArgumentsKept]_vars

\* a call on a two-year history returned with an issue
C15_Witness ==
    /\ pc = "returned"
    /\ Len(historical_data) = 24
    /\ Len(recent_actuals) = DefaultMonths
    /\ ret[1]["summary"].total_issues >= 1

=============================================================================
